---- MODULE Spec2Model ----
(***************************************************************************)
(* The wallet ledger of payment_portal_backend: the handlers addFunds,     *)
(* payBill and sendMoney of user.controller, run as concurrent requests    *)
(* against one PostgreSQL store (READ COMMITTED, row locks held until the  *)
(* transaction ends) through a pg connection pool.  Every await of a       *)
(* handler is one step of the model.  Spec takes requests of users with a  *)
(* balance row and numeric amounts, SpecAnyInput any user id and amount    *)
(* field, SpecListing the reads of getUserTransactions.                    *)
(***************************************************************************)
EXTENDS Integers, Sequences, FiniteSets, TLC

\* ------------------------------------------------------------- bounds
NumUsers == 2
NumReqs == 2
MaxAmount == 2
MaxInitBalance == 1
MaxFaults == 1
MaxRows == 3
MaxTime == 1

\* pg's Pool keeps at most 10 clients when PoolConfig sets no max.
PoolMax == 10

Users == 1..NumUsers
Reqs == 1..NumReqs
Amounts == 0..MaxAmount

\* A user id no row of account_balances carries.
NoRowId == NumUsers + 1
UserIds == Users \cup {NoRowId}

\* account_balances has a row WHERE user_id = u.
HasRow(u) == u \in Users

VARIABLES
    balance,    \* account_balances.amount, committed, per user
    rowLock,    \* the request whose transaction holds the row lock of a user's balance row (0: free)
    ledger,     \* transactions, committed rows in commit order
    kind,       \* per request: the handler serving it
    pc,         \* per request: the await the handler is at
    arg,        \* per request: req.body
    client,     \* per request: the handler holds a PoolClient
    txDelta,    \* per request: uncommitted change of each balance row written by its transaction
    txRecs,     \* per request: uncommitted rows inserted into transactions
    loc,        \* per request: recipient (findRecipient's row) and bal (the amount a query returned)
    resp,       \* per request: the HTTP response sent (status 0: none yet)
    faultAt,    \* per request: where a store call of it was rejected ("" : nowhere)
    history,    \* transactions, committed rows with the columns getUserTransactions orders by
    listing,    \* per user: the last response of getUserTransactions for that user
    crowd       \* further sendMoney requests for an unregistered recipient, each holding a
                \* PoolClient: how many are at each of their awaits

vars == <<balance, rowLock, ledger, kind, pc, arg, client, txDelta, txRecs, loc, resp, faultAt,
          history, listing, crowd>>

\* ------------------------------------------------------------- values
\* A JSON / JavaScript value carrying a user id: the number n or the string "n".
Num(n) == [type |-> "number", val |-> n]
Str(n) == [type |-> "string", val |-> n]
Null == [type |-> "null", val |-> 0]

\* sender_id === recipientId: equal types and equal values.
StrictEquals(a, b) == a.type = b.type /\ a.val = b.val

\* !v for a value carrying a user id: null is falsy; ids are >= 1, so 0 and "" never occur.
Falsy(v) == v.type = "null"

\* A query parameter $n bound to an integer column: pg sends the text of the value and
\* PostgreSQL reads it as an integer, for the number n and the string "n" alike.
SqlInt(v) == v.val

\* The value that stands for NaN among the amounts.
NaN == -1000

\* A body field that is text without a leading number.
Text == [type |-> "text", val |-> 0]

\* parseFloat(amount): the number for a number or a numeric string, NaN for any
\* other text and for a missing field.
ParseFloat(v) == IF v.type \in {"number", "string"} THEN v.val ELSE NaN

\* The amount fields of request bodies: the numbers, and with them a text and a
\* missing field.
NumberFields == {Num(a) : a \in Amounts}
AmountFields == NumberFields \cup {Text, Null}

\* x + y and x - y, in JavaScript and on a numeric column alike: NaN if either is.
Plus(x, y) == IF x = NaN \/ y = NaN THEN NaN ELSE x + y
Minus(x, y) == IF x = NaN \/ y = NaN THEN NaN ELSE x - y

\* x < y and x <= y in JavaScript: false when either is NaN.
Less(x, y) == x # NaN /\ y # NaN /\ x < y
LessOrEqual(x, y) == x # NaN /\ y # NaN /\ x <= y

\* An identifier string: at says whether it contains '@'; key is the user whose
\* registered e-mail (at) or mobile number (not at) it is, 0 when nobody's.
NoIdentifier == [at |-> FALSE, key |-> 0]
EmailOf(u) == [at |-> TRUE, key |-> u]
MobileOf(u) == [at |-> FALSE, key |-> u]
\* The identifiers requests carry: every user's e-mail, one user's mobile number and
\* an e-mail address nobody registered.
Identifiers == {EmailOf(u) : u \in Users} \cup {MobileOf(NumUsers), EmailOf(0)}

\* findRecipient: the users row whose email_id (identifier with '@') or mobile_number
\* equals the identifier; user_id comes back as a JavaScript number.
FindRecipient(identifier) ==
    LET isEmail == identifier.at
        rows == {u \in Users : (IF isEmail THEN EmailOf(u) ELSE MobileOf(u)) = identifier}
    IN IF rows # {} THEN Num(CHOOSE u \in rows : TRUE) ELSE Null

NoArg == [user |-> Null, amount |-> 0, recipient |-> NoIdentifier, merchant |-> FALSE]
NoLoc == [recipient |-> Null, bal |-> -1]
NoResp == [status |-> 0, new_balance |-> -1]
\* No response of getUserTransactions yet.  seen is kept for the claims: the number
\* of committed rows of transactions when the query ran.
NoListing == [status |-> 0, transactions |-> <<>>, seen |-> 0]
ZeroDelta == [u \in Users |-> 0]

\* ------------------------------------------------------------- store
RECURSIVE SumAmounts(_)
SumAmounts(s) == IF s = <<>> THEN 0 ELSE Head(s).amount + SumAmounts(Tail(s))

\* The opening deposit that brought user u to balance b before the requests modelled here.
OpeningRecord(u, b) ==
    [user |-> u, type |-> "CREDIT", amount |-> b, counterparty |-> 0,
     status |-> "COMPLETED", req |-> 0]

RECURSIVE OpeningLedger(_, _)
OpeningLedger(b, u) ==
    IF u > NumUsers THEN <<>>
    ELSE (IF b[u] > 0 THEN <<OpeningRecord(u, b[u])>> ELSE <<>>) \o OpeningLedger(b, u + 1)

NoCrowd == [begin |-> 0, find |-> 0, rollback |-> 0]

\* Connections checked out of the pool.
InUse == Cardinality({r \in Reqs : client[r]}) + crowd.begin + crowd.find + crowd.rollback

\* The amount of u's row as request r's transaction sees it: the committed amount
\* plus what r itself has written.
Amount(r, u) == Plus(balance[u], txDelta[r][u])

Init ==
    /\ balance \in [Users -> 0..MaxInitBalance]
    /\ ledger = OpeningLedger(balance, 1)
    /\ rowLock = [u \in Users |-> 0]
    /\ kind = [r \in Reqs |-> "none"]
    /\ pc = [r \in Reqs |-> "idle"]
    /\ arg = [r \in Reqs |-> NoArg]
    /\ client = [r \in Reqs |-> FALSE]
    /\ txDelta = [r \in Reqs |-> ZeroDelta]
    /\ txRecs = [r \in Reqs |-> <<>>]
    /\ loc = [r \in Reqs |-> NoLoc]
    /\ resp = [r \in Reqs |-> NoResp]
    /\ faultAt = [r \in Reqs |-> ""]
    /\ history = <<>>
    /\ listing = [u \in Users |-> NoListing]
    /\ crowd = NoCrowd

\* ------------------------------------------------------------- transactions
\* A statement that ends request r's transaction: COMMIT installs what the transaction
\* wrote, ROLLBACK discards it; both release its row locks.  Outside a transaction
\* (nothing written, no lock held) either is a no-op.
EndTransaction(r, stmt) ==
    /\ balance' = IF stmt = "COMMIT" THEN [u \in Users |-> Plus(balance[u], txDelta[r][u])] ELSE balance
    /\ ledger' = IF stmt = "COMMIT" THEN ledger \o txRecs[r] ELSE ledger
    /\ rowLock' = [u \in Users |-> IF rowLock[u] = r THEN 0 ELSE rowLock[u]]
    /\ txDelta' = [txDelta EXCEPT ![r] = ZeroDelta]
    /\ txRecs' = [txRecs EXCEPT ![r] = <<>>]

\* UPDATE account_balances SET amount = <new> WHERE user_id = u, through r's client:
\* waits for the row lock, then writes against the latest committed row.
UpdateAmount(r, u, new) ==
    /\ rowLock[u] \in {0, r}
    /\ rowLock' = [rowLock EXCEPT ![u] = r]
    /\ txDelta' = [txDelta EXCEPT ![r][u] = Minus(new, balance[u])]

\* INSERT INTO transactions, through r's client.
InsertRecord(r, rec) == txRecs' = [txRecs EXCEPT ![r] = Append(@, rec)]

\* return res.status(status).json(...), then the finally block: client.release().
\* The handler's locals end with it.
Respond(r, status, new_balance) ==
    /\ resp' = [resp EXCEPT ![r] = [status |-> status, new_balance |-> new_balance]]
    /\ loc' = [loc EXCEPT ![r] = NoLoc]
    /\ client' = [client EXCEPT ![r] = FALSE]
    /\ pc' = [pc EXCEPT ![r] = "done"]

Goto(r, label) == pc' = [pc EXCEPT ![r] = label]

\* Requests take the slots in order.
Fresh(r) == pc[r] = "idle" /\ (IF r = 1 THEN TRUE ELSE pc[r - 1] # "idle")

CatchCommits == "COMMIT"

\* The statement the catch blocks issue.
CatchStatement == "ROLLBACK"

\* ------------------------------------------------------------- steps shared by the handlers
\* client = await pool.connect()
Connect(r) ==
    /\ pc[r] = "connect"
    /\ InUse < PoolMax
    /\ client' = [client EXCEPT ![r] = TRUE]
    /\ Goto(r, "begin")
    /\ UNCHANGED <<balance, rowLock, ledger, kind, arg, txDelta, txRecs, loc, resp, faultAt, history, listing, crowd>>

FirstStep(k) ==
    CASE k = "addFunds" -> "af_update"
      [] k = "payBill" -> "pb_balance"
      [] k = "sendMoney" -> "sm_find"

\* await client.query('BEGIN')
Begin(r) ==
    /\ pc[r] = "begin"
    /\ Goto(r, FirstStep(kind[r]))
    /\ UNCHANGED <<balance, rowLock, ledger, kind, arg, client, txDelta, txRecs, loc, resp, faultAt, history, listing, crowd>>

\* The awaits of a handler: each is a store call that may be rejected.
Awaits == {"connect", "begin", "af_update", "af_log", "af_commit",
           "pb_balance", "pb_rollback402", "pb_log", "pb_commit", "pb_newbal",
           "sm_find", "sm_rollback404", "sm_rollback400", "sm_lock", "sm_rollback402",
           "sm_debit", "sm_credit", "sm_logdebit", "sm_name", "sm_logcredit",
           "sm_commit", "sm_newbal"}

\* Where in the handler an await lies: at pool.connect(), in the atomic unit before or
\* after its first write, or after COMMIT has returned.
Phase(label) ==
    CASE label = "connect" -> "connect"
      [] label \in {"pb_newbal", "sm_newbal"} -> "after"
      [] label \in {"af_log", "af_commit", "pb_commit", "sm_credit", "sm_logdebit",
                    "sm_name", "sm_logcredit", "sm_commit"} -> "written"
      [] OTHER -> "unit"

Faults == Cardinality({r \in Reqs : faultAt[r] \in {"connect", "unit", "written", "after"}})

\* A store call is rejected (connection lost, statement error): control passes to the
\* catch block.  A rejected pool.connect() leaves client null, so the catch block
\* answers 500 at once; otherwise it first issues ROLLBACK (Catch).  A rejected
\* statement, COMMIT included, has written nothing.
StoreFailure(r) ==
    /\ pc[r] \in Awaits
    /\ Faults < MaxFaults
    /\ faultAt' = [faultAt EXCEPT ![r] = Phase(pc[r])]
    /\ IF pc[r] = "connect"
       THEN Respond(r, 500, -1)
       ELSE Goto(r, "catch") /\ UNCHANGED <<client, resp, loc>>
    /\ UNCHANGED <<balance, rowLock, ledger, kind, arg, txDelta, txRecs, history, listing, crowd>>

\* catch (error) { if (client) await client.query('ROLLBACK'); return 500 } finally release
\* The ROLLBACK of the catch block is taken to be served.
Catch(r) ==
    /\ pc[r] = "catch"
    /\ EndTransaction(r, CatchStatement)
    /\ Respond(r, 500, -1)
    /\ UNCHANGED <<kind, arg, faultAt, history, listing, crowd>>

\* The ROLLBACK of the catch block is rejected (the connection is lost): the error
\* leaves the catch block, the finally block releases the client, and the handler's
\* promise rejects without a response of the handler.  Express before 5 leaves such
\* a rejection alone, so no response is sent; Express 5 passes it to its error
\* handler, which answers 500.  The transaction stays open on the store.
CatchRollbackRejected(r) ==
    /\ pc[r] = "catch"
    /\ \E answered \in BOOLEAN :
        resp' = IF answered THEN [resp EXCEPT ![r] = [status |-> 500, new_balance |-> -1]]
                ELSE resp
    /\ loc' = [loc EXCEPT ![r] = NoLoc]
    /\ client' = [client EXCEPT ![r] = FALSE]
    /\ Goto(r, "thrown")
    /\ UNCHANGED <<balance, rowLock, ledger, kind, arg, txDelta, txRecs, faultAt, history, listing, crowd>>

\* PostgreSQL ends the session of a lost connection once it notices the loss: the
\* open transaction is rolled back and its row locks are released.
SessionEnds(r) ==
    /\ pc[r] = "thrown"
    /\ EndTransaction(r, "ROLLBACK")
    /\ Goto(r, "ended")
    /\ UNCHANGED <<kind, arg, client, loc, resp, faultAt, history, listing, crowd>>

\* ------------------------------------------------------------- addFunds
\* !user_id || depositAmount <= 0
InvalidDeposit(user_id, amount) == Falsy(user_id) \/ LessOrEqual(amount, 0)

DepositOverwrite(cur, a) == a

\* amount = amount + $1
DepositUpdate(cur, a) == Plus(cur, a)

DepositRecordAsDebit(r, u, a) ==
    [user |-> u, type |-> "DEBIT", amount |-> a, counterparty |-> 0,
     status |-> "COMPLETED", req |-> r]

\* INSERT ... (user_id, 'CREDIT', amount, 'Wallet Deposit (External)', 'COMPLETED')
DepositRecord(r, u, a) ==
    [user |-> u, type |-> "CREDIT", amount |-> a, counterparty |-> 0,
     status |-> "COMPLETED", req |-> r]

\* The request arrives with a user_id of ids and an amount field of amounts; the
\* handler runs to its first await.  arg keeps the amount as parseFloat gave it.
AddFundsArrive(r, ids, amounts) ==
    /\ Fresh(r)
    /\ \E u \in ids, amount \in amounts :
        LET depositAmount == ParseFloat(amount)
        IN /\ kind' = [kind EXCEPT ![r] = "addFunds"]
           /\ arg' = [arg EXCEPT ![r] = [NoArg EXCEPT !.user = Num(u), !.amount = depositAmount]]
           /\ IF InvalidDeposit(Num(u), depositAmount)
              THEN Respond(r, 400, -1)
              ELSE Goto(r, "connect") /\ UNCHANGED <<client, resp, loc>>
    /\ UNCHANGED <<balance, rowLock, ledger, txDelta, txRecs, faultAt, history, listing, crowd>>

\* A deposit to a user who has a balance row, the amount a number.
AddFundsStart(r) == AddFundsArrive(r, Users, NumberFields)

\* A deposit with any user id and any amount field.
AddFundsStartAny(r) == AddFundsArrive(r, UserIds, AmountFields)

\* UPDATE account_balances SET amount = amount + $1 ... RETURNING amount
AddFundsUpdate(r) ==
    /\ pc[r] = "af_update"
    /\ LET u == SqlInt(arg[r].user)
           new == DepositUpdate(Amount(r, u), arg[r].amount)
       IN IF HasRow(u)
          THEN /\ UpdateAmount(r, u, new)
               /\ loc' = [loc EXCEPT ![r].bal = new]
          ELSE UNCHANGED <<rowLock, txDelta, loc>>
    /\ Goto(r, "af_log")
    /\ UNCHANGED <<balance, ledger, kind, arg, client, txRecs, resp, faultAt, history, listing, crowd>>

AddFundsLog(r) ==
    /\ pc[r] = "af_log"
    /\ InsertRecord(r, DepositRecord(r, SqlInt(arg[r].user), arg[r].amount))
    /\ Goto(r, "af_commit")
    /\ UNCHANGED <<balance, rowLock, ledger, kind, arg, client, txDelta, loc, resp, faultAt, history, listing, crowd>>

\* COMMIT, then 200 with new_balance: balanceResult.rows[0].amount; when the UPDATE
\* returned no row, rows[0] is undefined and reading its amount throws.
AddFundsCommit(r) ==
    /\ pc[r] = "af_commit"
    /\ EndTransaction(r, "COMMIT")
    /\ IF HasRow(SqlInt(arg[r].user))
       THEN Respond(r, 200, loc[r].bal)
       ELSE Goto(r, "catch") /\ UNCHANGED <<client, resp, loc>>
    /\ UNCHANGED <<kind, arg, faultAt, history, listing, crowd>>

AddFunds(r) ==
    \/ AddFundsStart(r)
    \/ AddFundsUpdate(r)
    \/ AddFundsLog(r)
    \/ AddFundsCommit(r)

\* ------------------------------------------------------------- payBill
\* !user_id || !merchant_id || paymentAmount <= 0
InvalidPayment(user_id, merchant, amount) ==
    Falsy(user_id) \/ ~merchant \/ LessOrEqual(amount, 0)

InsufficientFundsOffByOne(bal, amount) == LessOrEqual(bal, amount)

\* parseFloat(rows[0].amount) < amount
InsufficientFunds(bal, amount) == Less(bal, amount)

\* INSERT ... (user_id, 'DEBIT', amount, description, 'COMPLETED')
BillRecord(r, u, a) ==
    [user |-> u, type |-> "DEBIT", amount |-> a, counterparty |-> 0,
     status |-> "COMPLETED", req |-> r]

PayBillArrive(r, ids, amounts) ==
    /\ Fresh(r)
    /\ \E u \in ids, amount \in amounts, m \in BOOLEAN :
        LET paymentAmount == ParseFloat(amount)
        IN /\ kind' = [kind EXCEPT ![r] = "payBill"]
           /\ arg' = [arg EXCEPT ![r] =
                        [NoArg EXCEPT !.user = Num(u), !.amount = paymentAmount, !.merchant = m]]
           /\ IF InvalidPayment(Num(u), m, paymentAmount)
              THEN Respond(r, 400, -1)
              ELSE Goto(r, "connect") /\ UNCHANGED <<client, resp, loc>>
    /\ UNCHANGED <<balance, rowLock, ledger, txDelta, txRecs, faultAt, history, listing, crowd>>

PayBillStart(r) == PayBillArrive(r, Users, NumberFields)

PayBillStartAny(r) == PayBillArrive(r, UserIds, AmountFields)

\* await pool.query(SELECT amount ... FOR UPDATE): a statement of its own on another
\* pool connection, outside the transaction opened on client.  It waits for the row
\* lock and gives it back when the statement ends.
PayBillBalance(r) ==
    /\ pc[r] = "pb_balance"
    /\ InUse < PoolMax
    /\ LET u == SqlInt(arg[r].user)
       IN IF HasRow(u)
          THEN /\ rowLock[u] = 0
               /\ loc' = [loc EXCEPT ![r].bal = balance[u]]
               /\ IF InsufficientFunds(balance[u], arg[r].amount)
                  THEN Goto(r, "pb_rollback402")
                  ELSE Goto(r, "pb_log")
          ELSE \* balanceResult.rows.length === 0
               Goto(r, "pb_rollback402") /\ UNCHANGED loc
    /\ UNCHANGED <<balance, rowLock, ledger, kind, arg, client, txDelta, txRecs, resp, faultAt, history, listing, crowd>>

\* await client.query('ROLLBACK'); return res.status(402)
PayBillRollback402(r) ==
    /\ pc[r] = "pb_rollback402"
    /\ EndTransaction(r, "ROLLBACK")
    /\ Respond(r, 402, -1)
    /\ UNCHANGED <<kind, arg, faultAt, history, listing, crowd>>

PayBillLog(r) ==
    /\ pc[r] = "pb_log"
    /\ InsertRecord(r, BillRecord(r, SqlInt(arg[r].user), arg[r].amount))
    /\ Goto(r, "pb_commit")
    /\ UNCHANGED <<balance, rowLock, ledger, kind, arg, client, txDelta, loc, resp, faultAt, history, listing, crowd>>

PayBillCommit(r) ==
    /\ pc[r] = "pb_commit"
    /\ EndTransaction(r, "COMMIT")
    /\ Goto(r, "pb_newbal")
    /\ UNCHANGED <<kind, arg, client, loc, resp, faultAt, history, listing, crowd>>

\* await pool.query(SELECT amount ...); 200 with new_balance: rows[0].amount
PayBillNewBalance(r) ==
    /\ pc[r] = "pb_newbal"
    /\ InUse < PoolMax
    /\ Respond(r, 200, balance[SqlInt(arg[r].user)])
    /\ UNCHANGED <<balance, rowLock, ledger, kind, arg, txDelta, txRecs, faultAt, history, listing, crowd>>

PayBill(r) ==
    \/ PayBillStart(r)
    \/ PayBillBalance(r)
    \/ PayBillRollback402(r)
    \/ PayBillLog(r)
    \/ PayBillCommit(r)
    \/ PayBillNewBalance(r)

\* ------------------------------------------------------------- sendMoney
\* !sender_id || !recipient_identifier || transferAmount <= 0 (identifiers are non-empty strings)
InvalidTransfer(sender_id, amount) == Falsy(sender_id) \/ LessOrEqual(amount, 0)

\* sender_id === recipientId
IsSelfTransfer(sender_id, recipientId) == StrictEquals(sender_id, recipientId)

SenderBalancePlainSelect == FALSE

\* The sender's balance is read with SELECT ... FOR UPDATE.
SenderBalanceForUpdate == TRUE

\* amount = amount - $1
DebitUpdate(cur, a) == Minus(cur, a)

\* amount = amount + $1
CreditUpdate(cur, a) == Plus(cur, a)

\* INSERT ... (sender_id, 'DEBIT', amount, 'Transfer to ...', recipientId, 'COMPLETED')
TransferDebitRecord(r, sender, recipient, a) ==
    [user |-> sender, type |-> "DEBIT", amount |-> a, counterparty |-> recipient,
     status |-> "COMPLETED", req |-> r]

TransferCreditRecordSelfParty(r, sender, recipient, a) ==
    [user |-> recipient, type |-> "CREDIT", amount |-> a, counterparty |-> recipient,
     status |-> "COMPLETED", req |-> r]

\* INSERT ... (recipientId, 'CREDIT', amount, 'Transfer from ...', sender_id, 'COMPLETED')
TransferCreditRecord(r, sender, recipient, a) ==
    [user |-> recipient, type |-> "CREDIT", amount |-> a, counterparty |-> sender,
     status |-> "COMPLETED", req |-> r]

Sender(r) == SqlInt(arg[r].user)
Recipient(r) == SqlInt(loc[r].recipient)

SendMoneyArrive(r, ids, amounts) ==
    /\ Fresh(r)
    /\ \E u \in ids, isString \in BOOLEAN, amount \in amounts, id \in Identifiers :
        LET sender_id == IF isString THEN Str(u) ELSE Num(u)
            transferAmount == ParseFloat(amount)
        IN /\ kind' = [kind EXCEPT ![r] = "sendMoney"]
           /\ arg' = [arg EXCEPT ![r] =
                        [NoArg EXCEPT !.user = sender_id, !.amount = transferAmount, !.recipient = id]]
           /\ IF InvalidTransfer(sender_id, transferAmount)
              THEN Respond(r, 400, -1)
              ELSE Goto(r, "connect") /\ UNCHANGED <<client, resp, loc>>
    /\ UNCHANGED <<balance, rowLock, ledger, txDelta, txRecs, faultAt, history, listing, crowd>>

SendMoneyStart(r) == SendMoneyArrive(r, Users, NumberFields)

SendMoneyStartAny(r) == SendMoneyArrive(r, UserIds, AmountFields)

\* const recipient = await findRecipient(recipient_identifier), through pool.query,
\* then the two checks made on its result.
SendMoneyFind(r) ==
    /\ pc[r] = "sm_find"
    /\ InUse < PoolMax
    /\ LET recipient == FindRecipient(arg[r].recipient)
       IN /\ loc' = [loc EXCEPT ![r].recipient = recipient]
          /\ IF Falsy(recipient) THEN Goto(r, "sm_rollback404")
             ELSE IF IsSelfTransfer(arg[r].user, recipient) THEN Goto(r, "sm_rollback400")
             ELSE Goto(r, "sm_lock")
    /\ UNCHANGED <<balance, rowLock, ledger, kind, arg, client, txDelta, txRecs, resp, faultAt, history, listing, crowd>>

SendMoneyRollback404(r) ==
    /\ pc[r] = "sm_rollback404"
    /\ EndTransaction(r, "ROLLBACK")
    /\ Respond(r, 404, -1)
    /\ UNCHANGED <<kind, arg, faultAt, history, listing, crowd>>

SendMoneyRollback400(r) ==
    /\ pc[r] = "sm_rollback400"
    /\ EndTransaction(r, "ROLLBACK")
    /\ Respond(r, 400, -1)
    /\ UNCHANGED <<kind, arg, faultAt, history, listing, crowd>>

\* await client.query(SELECT amount ... FOR UPDATE), then the funds check
SendMoneyLock(r) ==
    /\ pc[r] = "sm_lock"
    /\ IF HasRow(Sender(r))
       THEN /\ IF SenderBalanceForUpdate
               THEN /\ rowLock[Sender(r)] \in {0, r}
                    /\ rowLock' = [rowLock EXCEPT ![Sender(r)] = r]
               ELSE UNCHANGED rowLock
            /\ loc' = [loc EXCEPT ![r].bal = Amount(r, Sender(r))]
            /\ IF InsufficientFunds(Amount(r, Sender(r)), arg[r].amount)
               THEN Goto(r, "sm_rollback402")
               ELSE Goto(r, "sm_debit")
       ELSE \* senderBalanceResult.rows.length === 0
            Goto(r, "sm_rollback402") /\ UNCHANGED <<rowLock, loc>>
    /\ UNCHANGED <<balance, ledger, kind, arg, client, txDelta, txRecs, resp, faultAt, history, listing, crowd>>

SendMoneyRollback402(r) ==
    /\ pc[r] = "sm_rollback402"
    /\ EndTransaction(r, "ROLLBACK")
    /\ Respond(r, 402, -1)
    /\ UNCHANGED <<kind, arg, faultAt, history, listing, crowd>>

SendMoneyDebit(r) ==
    /\ pc[r] = "sm_debit"
    /\ UpdateAmount(r, Sender(r), DebitUpdate(Amount(r, Sender(r)), arg[r].amount))
    /\ Goto(r, "sm_credit")
    /\ UNCHANGED <<balance, ledger, kind, arg, client, txRecs, loc, resp, faultAt, history, listing, crowd>>

SendMoneyCredit(r) ==
    /\ pc[r] = "sm_credit"
    /\ UpdateAmount(r, Recipient(r), CreditUpdate(Amount(r, Recipient(r)), arg[r].amount))
    /\ Goto(r, "sm_logdebit")
    /\ UNCHANGED <<balance, ledger, kind, arg, client, txRecs, loc, resp, faultAt, history, listing, crowd>>

SendMoneyLogDebit(r) ==
    /\ pc[r] = "sm_logdebit"
    /\ InsertRecord(r, TransferDebitRecord(r, Sender(r), Recipient(r), arg[r].amount))
    /\ Goto(r, "sm_name")
    /\ UNCHANGED <<balance, rowLock, ledger, kind, arg, client, txDelta, loc, resp, faultAt, history, listing, crowd>>

\* await pool.query('SELECT first_name FROM users WHERE user_id = $1', [sender_id])
SendMoneySenderName(r) ==
    /\ pc[r] = "sm_name"
    /\ InUse < PoolMax
    /\ Goto(r, "sm_logcredit")
    /\ UNCHANGED <<balance, rowLock, ledger, kind, arg, client, txDelta, txRecs, loc, resp, faultAt, history, listing, crowd>>

SendMoneyLogCredit(r) ==
    /\ pc[r] = "sm_logcredit"
    /\ InsertRecord(r, TransferCreditRecord(r, Sender(r), Recipient(r), arg[r].amount))
    /\ Goto(r, "sm_commit")
    /\ UNCHANGED <<balance, rowLock, ledger, kind, arg, client, txDelta, loc, resp, faultAt, history, listing, crowd>>

SendMoneyCommit(r) ==
    /\ pc[r] = "sm_commit"
    /\ EndTransaction(r, "COMMIT")
    /\ Goto(r, "sm_newbal")
    /\ UNCHANGED <<kind, arg, client, loc, resp, faultAt, history, listing, crowd>>

\* await pool.query(SELECT amount ...); 200 with new_balance: rows[0].amount
SendMoneyNewBalance(r) ==
    /\ pc[r] = "sm_newbal"
    /\ InUse < PoolMax
    /\ Respond(r, 200, balance[Sender(r)])
    /\ UNCHANGED <<balance, rowLock, ledger, kind, arg, txDelta, txRecs, faultAt, history, listing, crowd>>

SendMoney(r) ==
    \/ SendMoneyStart(r)
    \/ SendMoneyFind(r)
    \/ SendMoneyRollback404(r)
    \/ SendMoneyRollback400(r)
    \/ SendMoneyLock(r)
    \/ SendMoneyRollback402(r)
    \/ SendMoneyDebit(r)
    \/ SendMoneyCredit(r)
    \/ SendMoneyLogDebit(r)
    \/ SendMoneySenderName(r)
    \/ SendMoneyLogCredit(r)
    \/ SendMoneyCommit(r)
    \/ SendMoneyNewBalance(r)

\* ------------------------------------------------------------- row-lock waits
\* The balance row whose lock request r's pending statement needs (0: none).
WaitsFor(r) ==
    LET u == CASE pc[r] \in {"af_update", "pb_balance"} -> SqlInt(arg[r].user)
               [] pc[r] = "sm_lock" /\ SenderBalanceForUpdate -> Sender(r)
               [] pc[r] = "sm_debit" -> Sender(r)
               [] pc[r] = "sm_credit" -> Recipient(r)
               [] OTHER -> 0
    IN IF HasRow(u) THEN u ELSE 0

Blocked(r) == WaitsFor(r) # 0 /\ rowLock[WaitsFor(r)] \notin {0, r}

Holder(r) == rowLock[WaitsFor(r)]

RECURSIVE WaitChain(_)
WaitChain(S) ==
    LET T == S \cup {Holder(x) : x \in {y \in S : Blocked(y)}}
    IN IF T = S THEN S ELSE WaitChain(T)

\* r waits for a lock whose holder waits, directly or through others, for a lock r holds.
Deadlocked(r) == Blocked(r) /\ r \in WaitChain({Holder(r)})

\* PostgreSQL's deadlock detector: the statement of one transaction of the cycle is
\* rejected (40P01) and its handler passes to the catch block.
DeadlockAbort(r) ==
    /\ Deadlocked(r)
    /\ faultAt' = [faultAt EXCEPT ![r] = "deadlock"]
    /\ Goto(r, "catch")
    /\ UNCHANGED <<balance, rowLock, ledger, kind, arg, client, txDelta, txRecs, loc, resp, history, listing, crowd>>

\* ------------------------------------------------------------- specification
Next ==
    \E r \in Reqs :
        \/ AddFunds(r)
        \/ PayBill(r)
        \/ SendMoney(r)
        \/ Connect(r)
        \/ Begin(r)
        \/ StoreFailure(r)
        \/ Catch(r)
        \/ DeadlockAbort(r)

Spec == Init /\ [][Next]_vars

\* The requests of Spec, where the ROLLBACK of the catch block may be rejected too.
NextRollbackFault ==
    \E r \in Reqs :
        \/ AddFunds(r)
        \/ PayBill(r)
        \/ SendMoney(r)
        \/ Connect(r)
        \/ Begin(r)
        \/ StoreFailure(r)
        \/ Catch(r)
        \/ CatchRollbackRejected(r)
        \/ SessionEnds(r)
        \/ DeadlockAbort(r)

SpecRollbackFault == Init /\ [][NextRollbackFault]_vars

\* INSERT INTO transactions for a user_id that has no balance row: the store
\* rejects it when that user_id is in no users row and the table refers to users.
InsertRejected(r) ==
    /\ pc[r] = "af_log"
    /\ ~HasRow(SqlInt(arg[r].user))
    /\ Goto(r, "catch")
    /\ UNCHANGED <<balance, rowLock, ledger, kind, arg, client, txDelta, txRecs, loc, resp, faultAt, history, listing, crowd>>

\* The requests with any user id and any amount field.
NextAnyInput ==
    \E r \in Reqs :
        \/ AddFundsStartAny(r)
        \/ AddFundsUpdate(r)
        \/ AddFundsLog(r)
        \/ InsertRejected(r)
        \/ AddFundsCommit(r)
        \/ PayBillStartAny(r)
        \/ PayBillBalance(r)
        \/ PayBillRollback402(r)
        \/ PayBillLog(r)
        \/ PayBillCommit(r)
        \/ PayBillNewBalance(r)
        \/ SendMoneyStartAny(r)
        \/ SendMoneyFind(r)
        \/ SendMoneyRollback404(r)
        \/ SendMoneyRollback400(r)
        \/ SendMoneyLock(r)
        \/ SendMoneyRollback402(r)
        \/ SendMoneyDebit(r)
        \/ SendMoneyCredit(r)
        \/ SendMoneyLogDebit(r)
        \/ SendMoneySenderName(r)
        \/ SendMoneyLogCredit(r)
        \/ SendMoneyCommit(r)
        \/ SendMoneyNewBalance(r)
        \/ Connect(r)
        \/ Begin(r)
        \/ Catch(r)
        \/ DeadlockAbort(r)

SpecAnyInput == Init /\ [][NextAnyInput]_vars

\* ------------------------------------------------------------- getUserTransactions
\* The handlers' INSERTs leave created_at to the store, and no handler reads it or
\* transaction_id but getUserTransactions.  Here the write handlers are taken by
\* the rows they commit, with these two columns.
Times == 0..MaxTime

HistoryRow(id, u, t) == [transaction_id |-> id, user_id |-> u, created_at |-> t]

\* Handlers outside a transaction, each state of the money handlers left as it is.
Quiet == UNCHANGED <<balance, rowLock, ledger, kind, pc, arg, client, txDelta, txRecs, loc, resp, faultAt>>

\* A deposit or a bill payment of user u commits its row.  transaction_id is the
\* next value of the sequence; created_at is a time of the store's clock, in any
\* order to the ids, since a transaction that began earlier may insert later.
OneRecordCommitted ==
    /\ Len(history) < MaxRows
    /\ \E u \in Users, t \in Times :
        history' = Append(history, HistoryRow(Len(history) + 1, u, t))
    /\ Quiet
    /\ UNCHANGED <<listing, crowd>>

\* A transfer commits the sender's row and then the recipient's, inserted in one
\* transaction.
TransferRecordsCommitted ==
    /\ Len(history) + 1 < MaxRows
    /\ \E sender \in Users, t \in Times :
        \E recipient \in Users \ {sender} :
            history' = history \o <<HistoryRow(Len(history) + 1, sender, t),
                                    HistoryRow(Len(history) + 2, recipient, t)>>
    /\ Quiet
    /\ UNCHANGED <<listing, crowd>>

\* !user_id || typeof user_id !== 'number'
InvalidListing(user_id) == Falsy(user_id) \/ user_id.type # "number"

\* s runs from the first to the last row in ORDER BY created_at DESC.
OrderByCreatedAtDesc(s) ==
    \A i, j \in 1..Len(s) : i < j => s[i].created_at >= s[j].created_at

\* The order the query of getUserTransactions asks for.
OrderBy(s) == OrderByCreatedAtDesc(s)

\* The rows WHERE user_id = u.
RowsOf(u) == {i \in 1..Len(history) : history[i].user_id = u}

\* The results SELECT ... WHERE user_id = u ORDER BY created_at DESC may give: each
\* row of u once, in any order that meets the ORDER BY clause; rows whose created_at
\* are equal come in an order the store does not fix.
QueryResults(u) ==
    LET n == Cardinality(RowsOf(u))
        perms == {p \in [1..n -> RowsOf(u)] : \A i, j \in 1..n : i # j => p[i] # p[j]}
        results == {[i \in 1..n |-> history[p[i]]] : p \in perms}
    IN {s \in results : OrderBy(s)}

\* getUserTransactions: validation, the query through pool.query, the response with
\* the rows in the order the query gave them; 500 when the query is rejected.
GetUserTransactions ==
    /\ \E u \in Users, isString \in BOOLEAN :
        LET user_id == IF isString THEN Str(u) ELSE Num(u)
            Answer(status, s) ==
                listing' = [listing EXCEPT ![u] =
                               [status |-> status, transactions |-> s, seen |-> Len(history)]]
        IN IF InvalidListing(user_id)
           THEN Answer(400, <<>>)
           ELSE \/ \E s \in QueryResults(SqlInt(user_id)) : Answer(200, s)
                \/ Answer(500, <<>>)
    /\ Quiet
    /\ UNCHANGED <<history, crowd>>

NextListing ==
    \/ OneRecordCommitted
    \/ TransferRecordsCommitted
    \/ GetUserTransactions

SpecListing == Init /\ [][NextListing]_vars

\* ------------------------------------------------------------- the pool under load
\* sendMoney requests whose recipient_identifier nobody registered: they take a
\* client, BEGIN, look the recipient up through pool.query, ROLLBACK and answer 404.
\* They touch no balance, lock or record, so they are counted, not told apart.
\* client = await pool.connect(): served while the pool has a free connection.
CrowdConnect ==
    /\ InUse < PoolMax
    /\ crowd' = [crowd EXCEPT !.begin = @ + 1]
    /\ Quiet
    /\ UNCHANGED <<history, listing>>

\* await client.query('BEGIN')
CrowdBegin ==
    /\ crowd.begin > 0
    /\ crowd' = [crowd EXCEPT !.begin = @ - 1, !.find = @ + 1]
    /\ Quiet
    /\ UNCHANGED <<history, listing>>

\* await findRecipient(recipient_identifier): pool.query takes a free connection
\* for the statement and gives it back; with none free it waits, pg setting no
\* connectionTimeoutMillis by default.  The lookup finds nobody.
CrowdFind ==
    /\ crowd.find > 0
    /\ InUse < PoolMax
    /\ crowd' = [crowd EXCEPT !.find = @ - 1, !.rollback = @ + 1]
    /\ Quiet
    /\ UNCHANGED <<history, listing>>

\* await client.query('ROLLBACK'); return res.status(404); finally client.release()
CrowdRollback404 ==
    /\ crowd.rollback > 0
    /\ crowd' = [crowd EXCEPT !.rollback = @ - 1]
    /\ Quiet
    /\ UNCHANGED <<history, listing>>

NextPool ==
    \/ CrowdConnect
    \/ CrowdBegin
    \/ CrowdFind
    \/ CrowdRollback404

SpecPool == Init /\ [][NextPool]_vars

\* ------------------------------------------------------------- what the claims speak of
RecsWhere(Test(_)) == SelectSeq(ledger, Test)

Credits(u) == LET T(x) == x.user = u /\ x.type = "CREDIT" IN SumAmounts(RecsWhere(T))
Debits(u) == LET T(x) == x.user = u /\ x.type = "DEBIT" IN SumAmounts(RecsWhere(T))

\* The committed records request r wrote.
RecsOf(r) == LET T(x) == x.req = r IN RecsWhere(T)

\* The balance user u had before the first request.
InitBalance(u) == LET T(x) == x.user = u /\ x.req = 0 IN SumAmounts(RecsWhere(T))

\* The user the request's recipient_identifier resolves to (0: nobody).
Resolved(r) == SqlInt(FindRecipient(arg[r].recipient))

\* Request r took a step.
Stepped(r) == pc'[r] # pc[r]

Done(r) == pc[r] = "done"

\* C1: for every user the committed balance equals the sum of the user's CREDIT
\* amounts minus the sum of the user's DEBIT amounts.
C1_Reconciliation == \A u \in Users : balance[u] = Credits(u) - Debits(u)

\* C2: in every committed state every user's balance is >= 0.
C2_NonNegativeBalance == \A u \in Users : balance[u] >= 0

\* C2 witness: two transfers debit the same sender, each amount was covered by the
\* opening balance but not both; one has committed and the other is being refused.
C2_Witness ==
    \E r1, r2 \in Reqs :
        /\ r1 # r2
        /\ kind[r1] = "sendMoney" /\ kind[r2] = "sendMoney"
        /\ pc[r1] = "sm_newbal" /\ pc[r2] = "sm_rollback402"
        /\ Sender(r1) = Sender(r2)
        /\ arg[r1].amount <= InitBalance(Sender(r1))
        /\ arg[r2].amount <= InitBalance(Sender(r1))
        /\ arg[r1].amount + arg[r2].amount > InitBalance(Sender(r1))
        /\ balance[Sender(r1)] = InitBalance(Sender(r1)) - arg[r1].amount

\* The four effects of transfer r, all in one step.
AllFourEffects(r) ==
    LET s == Sender(r)
        t == Recipient(r)
        a == arg[r].amount
        new == SubSeq(ledger', Len(ledger) + 1, Len(ledger'))
    IN /\ balance' = [[balance EXCEPT ![s] = @ - a] EXCEPT ![t] = @ + a]
       /\ Len(ledger') = Len(ledger) + 2
       /\ SubSeq(ledger', 1, Len(ledger)) = ledger
       /\ \E i \in 1..2 : new[i].type = "DEBIT" /\ new[i].user = s /\ new[i].req = r
       /\ \E i \in 1..2 : new[i].type = "CREDIT" /\ new[i].user = t /\ new[i].req = r

NoEffect == balance' = balance /\ ledger' = ledger

\* C3: every step of a transfer leaves balances and ledger as they are, except its
\* COMMIT, which applies the sender debit, the recipient credit and both records
\* together; a transfer that failed inside its atomic unit has no committed record.
C3_TransferAtomic ==
    [][\A r \in Reqs :
        /\ (kind[r] = "sendMoney" /\ Stepped(r)) =>
              IF pc[r] = "sm_commit" /\ pc'[r] = "sm_newbal"
              THEN AllFourEffects(r) /\ faultAt[r] = ""
              ELSE NoEffect
        /\ (kind'[r] = "sendMoney" /\ (faultAt'[r] \in {"unit", "written", "deadlock"}
                                        \/ resp'[r].status \in {400, 402, 404})) =>
              RecsOf(r)' = <<>>]_vars

\* C3 witness: a transfer whose store call was rejected after the sender debit has
\* answered 500; balances and ledger are those of the start.
C3_Witness ==
    \E r \in Reqs :
        /\ kind[r] = "sendMoney" /\ Done(r)
        /\ faultAt[r] = "written" /\ resp[r].status = 500
        /\ \A q \in Reqs \ {r} : pc[q] = "idle"
        /\ \A u \in Users : balance[u] = InitBalance(u)
        /\ ledger = OpeningLedger(balance, 1)

\* Transfers r1 and r2 move the same amount between the same two users in opposite
\* directions, and each sender's opening balance covers the amount.
Opposite(r1, r2) ==
    /\ r1 # r2
    /\ kind[r1] = "sendMoney" /\ kind[r2] = "sendMoney"
    /\ arg[r1].amount > 0 /\ arg[r1].amount = arg[r2].amount
    /\ Resolved(r1) = Sender(r2) /\ Resolved(r2) = Sender(r1)
    /\ Sender(r1) # Sender(r2)
    /\ InitBalance(Sender(r1)) >= arg[r1].amount
    /\ InitBalance(Sender(r2)) >= arg[r2].amount

\* C4: two opposite transfers of the same amount, no store call of either rejected
\* from outside, both answer 200 and leave both balances at their opening values.
C4_OppositeTransfersComplete ==
    \A r1, r2 \in Reqs :
        (/\ Opposite(r1, r2)
         /\ \A q \in Reqs \ {r1, r2} : pc[q] = "idle"
         /\ faultAt[r1] \notin {"connect", "unit", "written", "after"}
         /\ faultAt[r2] \notin {"connect", "unit", "written", "after"}
         /\ Done(r1) /\ Done(r2))
        => /\ resp[r1].status = 200 /\ resp[r2].status = 200
           /\ \A u \in Users : balance[u] = InitBalance(u)

\* The requests that have arrived.
Arrived == {r \in Reqs : pc[r] # "idle"}

\* All requests that have arrived are deposits of a to user u.
DepositsOnly(u, a) ==
    \A r \in Arrived : kind[r] = "addFunds" /\ SqlInt(arg[r].user) = u /\ arg[r].amount = a

NewCredits(u) == LET T(x) == x.user = u /\ x.type = "CREDIT" /\ x.req # 0 IN RecsWhere(T)

\* C5: N deposits of a > 0 to one user, no store call rejected: none is ever in a
\* lock cycle, and once all have answered, each answered 200, the balance is the
\* opening balance + N*a and the user has exactly N new CREDIT records.
C5_ConcurrentDeposits ==
    \A u \in Users, a \in 1..MaxAmount :
        (DepositsOnly(u, a) /\ \A r \in Arrived : faultAt[r] = "")
        => /\ \A r \in Arrived : ~Deadlocked(r)
           /\ (\A r \in Arrived : Done(r)) =>
                /\ \A r \in Arrived : resp[r].status = 200
                /\ balance[u] = InitBalance(u) + Cardinality(Arrived) * a
                /\ Len(NewCredits(u)) = Cardinality(Arrived)
                /\ \A i \in 1..Len(NewCredits(u)) : NewCredits(u)[i].amount = a

\* C5 witness: every request slot was a deposit of the same amount to the same user,
\* all have answered 200, with different new balances.
C5_Witness ==
    \E u \in Users, a \in 1..MaxAmount :
        /\ Arrived = Reqs /\ DepositsOnly(u, a)
        /\ \A r \in Reqs : Done(r) /\ resp[r].status = 200
        /\ \A r1, r2 \in Reqs : r1 # r2 => resp[r1].new_balance # resp[r2].new_balance
        /\ balance[u] = InitBalance(u) + NumReqs * a

User(r) == SqlInt(arg[r].user)

\* A committed record as the claims describe one (the writing request aside).
Rec(r, u, type, a, counterparty) ==
    [user |-> u, type |-> type, amount |-> a, counterparty |-> counterparty,
     status |-> "COMPLETED", req |-> r]

\* C6: the COMMIT of a bill payment whose funds check passed takes the amount from
\* the user's balance and appends one DEBIT record with null counterparty and
\* status COMPLETED; the 200 answer carries the balance read at the check minus
\* the amount.
C6_BillPaymentDebits ==
    [][\A r \in Reqs :
        /\ (kind[r] = "payBill" /\ pc[r] = "pb_commit" /\ pc'[r] = "pb_newbal") =>
              /\ balance' = [balance EXCEPT ![User(r)] = @ - arg[r].amount]
              /\ ledger' = Append(ledger, Rec(r, User(r), "DEBIT", arg[r].amount, 0))
        /\ (kind[r] = "payBill" /\ pc[r] = "pb_newbal" /\ resp'[r].status = 200) =>
              resp'[r].new_balance = loc[r].bal - arg[r].amount]_vars

\* C7: a bill payment's funds check sends it to the 402 answer exactly when the
\* balance is below the amount; that answer changes no balance and no record, and a
\* payment answered 402 has no committed record.
C7_BillInsufficientFunds ==
    [][\A r \in Reqs :
        /\ (kind[r] = "payBill" /\ pc[r] = "pb_balance" /\ pc'[r] \in {"pb_rollback402", "pb_log"}) =>
              (pc'[r] = "pb_rollback402" <=> balance[User(r)] < arg[r].amount)
        /\ (kind[r] = "payBill" /\ pc[r] = "pb_rollback402" /\ Stepped(r) /\ faultAt'[r] = "") =>
              resp'[r].status = 402 /\ NoEffect
        /\ (kind'[r] = "payBill" /\ resp'[r].status = 402) => RecsOf(r)' = <<>>]_vars

\* C7 witness: a bill payment above the user's balance has answered 402; balances
\* and ledger are those of the start.
C7_Witness ==
    \E r \in Reqs :
        /\ kind[r] = "payBill" /\ Done(r) /\ resp[r].status = 402
        /\ arg[r].amount > InitBalance(User(r))
        /\ \A q \in Reqs \ {r} : pc[q] = "idle"
        /\ \A u \in Users : balance[u] = InitBalance(u)
        /\ ledger = OpeningLedger(balance, 1)

\* C8: a transfer to a recipient other than the sender passes its funds check
\* exactly when the sender's balance covers the amount; its COMMIT takes the amount
\* from the sender, adds it to the recipient, changes no other balance and appends
\* exactly the DEBIT record of the sender (counterparty: recipient) and the CREDIT
\* record of the recipient (counterparty: sender), both COMPLETED; a transfer
\* answered 200 has exactly these two committed records.
C8_TransferSuccess ==
    [][\A r \in Reqs :
        (kind'[r] = "sendMoney" /\ Resolved(r)' # 0 /\ Resolved(r)' # User(r)') =>
            LET s == User(r)
                t == Resolved(r)
                a == arg[r].amount
                D == Rec(r, s, "DEBIT", a, t)
                C == Rec(r, t, "CREDIT", a, s)
            IN /\ (pc[r] = "sm_lock" /\ pc'[r] \in {"sm_debit", "sm_rollback402"}) =>
                      (pc'[r] = "sm_debit" <=> balance[s] >= a)
               /\ (pc[r] = "sm_commit" /\ pc'[r] = "sm_newbal") =>
                      /\ balance' = [balance EXCEPT ![s] = @ - a, ![t] = @ + a]
                      /\ ledger' = ledger \o <<D, C>>
               /\ resp'[r].status = 200 => RecsOf(r)' = <<D, C>>]_vars

\* C8 witness: the only request, a transfer the sender's balance covers, to another
\* user, has answered 200.
C8_Witness ==
    \E r \in Reqs :
        LET s == User(r)
            t == Resolved(r)
            a == arg[r].amount
        IN /\ kind[r] = "sendMoney" /\ Done(r) /\ resp[r].status = 200
           /\ t # 0 /\ t # s
           /\ \A q \in Reqs \ {r} : pc[q] = "idle"
           /\ balance[s] = InitBalance(s) - a
           /\ balance[t] = InitBalance(t) + a
           /\ RecsOf(r) = <<Rec(r, s, "DEBIT", a, t), Rec(r, t, "CREDIT", a, s)>>

\* C9: a transfer whose recipient_identifier resolves to the sender's own user id,
\* as a number or as a string, is answered 400 and commits no record and no
\* balance change.
C9_SelfTransferRejected ==
    \A r \in Reqs :
        (/\ kind[r] = "sendMoney" /\ arg[r].amount > 0
         /\ Resolved(r) = User(r)
         /\ Done(r) /\ faultAt[r] = "")
        => resp[r].status = 400 /\ RecsOf(r) = <<>>

\* C10: the COMMIT of a deposit of a to a user with balance b commits b + a, appends
\* exactly one CREDIT record with amount a, null counterparty and status COMPLETED,
\* and answers 200 with new_balance = b + a, the amount its own UPDATE returned.
C10_DepositSuccess ==
    [][\A r \in Reqs :
        (kind[r] = "addFunds" /\ pc[r] = "af_commit" /\ Stepped(r) /\ faultAt'[r] = "") =>
            LET u == User(r)
                a == arg[r].amount
            IN /\ a > 0
               /\ balance' = [balance EXCEPT ![u] = @ + a]
               /\ ledger' = Append(ledger, Rec(r, u, "CREDIT", a, 0))
               /\ resp'[r] = [status |-> 200, new_balance |-> balance[u] + a]
               /\ resp'[r].new_balance = loc[r].bal]_vars

\* C10 witness: the only request, a deposit, has answered 200 with the opening
\* balance plus its amount, which is the committed balance.
C10_Witness ==
    \E r \in Reqs :
        /\ kind[r] = "addFunds" /\ Done(r) /\ resp[r].status = 200
        /\ \A q \in Reqs \ {r} : pc[q] = "idle"
        /\ InitBalance(User(r)) > 0
        /\ resp[r].new_balance = InitBalance(User(r)) + arg[r].amount
        /\ balance[User(r)] = resp[r].new_balance
        /\ RecsOf(r) = <<Rec(r, User(r), "CREDIT", arg[r].amount, 0)>>

\* C11: a deposit whose amount is not a positive number (zero, or a field that
\* does not parse to a number) has been answered 400 by the time the handler
\* first awaits: it never holds a client and has no committed record.
C11_DepositAmountValidation ==
    \A r \in Reqs :
        (kind[r] = "addFunds" /\ ~(arg[r].amount # NaN /\ arg[r].amount > 0))
        => /\ resp[r].status = 400
           /\ ~client[r]
           /\ RecsOf(r) = <<>>

\* The statuses by which a request is reported as failed.
FailureStatuses == {400, 402, 404, 500}

\* C12: a request answered 400, 402, 404 or 500 has no committed record (and so no
\* committed balance change, which only comes with a record in the same COMMIT);
\* a request whose COMMIT went through is never answered with a failure status.
C12_FailureMeansNoEffect ==
    \A r \in Reqs : resp[r].status \in FailureStatuses => RecsOf(r) = <<>>

\* C13: a request whose user_id (deposit, bill payment) or sender_id (transfer)
\* has no balance row ends with a failure status other than the 402 of
\* insufficient funds and has no committed record.
C13_MissingBalanceRow ==
    \A r \in Reqs :
        (Done(r) /\ kind[r] \in {"addFunds", "payBill", "sendMoney"} /\ ~HasRow(User(r)))
        => /\ resp[r].status \in FailureStatuses \ {402}
           /\ RecsOf(r) = <<>>

\* s is ordered by created_at descending, rows of equal created_at by
\* transaction_id descending.
OrderByCreatedAtDescIdDesc(s) ==
    \A i, j \in 1..Len(s) : i < j =>
        \/ s[i].created_at > s[j].created_at
        \/ s[i].created_at = s[j].created_at /\ s[i].transaction_id > s[j].transaction_id

\* The rows of a response, as a set.
Listed(l) == {l.transactions[i] : i \in 1..Len(l.transactions)}

\* C14: a response 200 of getUserTransactions holds every committed row of the
\* user once, ordered by created_at descending and, among rows of equal
\* created_at, by transaction_id descending.
C14_ListingOrder ==
    [][\A u \in Users :
        (listing'[u] # listing[u] /\ listing'[u].status = 200) =>
            /\ Listed(listing'[u]) = {history[i] : i \in RowsOf(u)}
            /\ Len(listing'[u].transactions) = Cardinality(RowsOf(u))
            /\ OrderByCreatedAtDescIdDesc(listing'[u].transactions)]_vars

\* C15: a response 200 of getUserTransactions that follows a response 200 for the
\* same user, with no row committed since, lists the same rows in the same order.
C15_IdempotentReads ==
    [][\A u \in Users :
        (/\ listing[u].status = 200 /\ listing'[u].status = 200
         /\ listing[u].seen = Len(history) /\ listing'[u].seen = Len(history))
        => listing'[u].transactions = listing[u].transactions]_vars

\* C16: every step leaves the committed records in place and only appends to them,
\* every committed record has status COMPLETED, and a request that ends with a
\* status other than 200 has written no record.
C16_AppendOnlyLedger ==
    [][/\ Len(ledger') >= Len(ledger)
       /\ SubSeq(ledger', 1, Len(ledger)) = ledger
       /\ \A i \in 1..Len(ledger') : ledger'[i].status = "COMPLETED"
       /\ \A r \in Reqs :
            (Stepped(r) /\ pc'[r] = "done" /\ resp'[r].status # 200) => RecsOf(r)' = <<>>]_vars

\* C17: from its funds check to its COMMIT a bill payment holds the lock of the
\* user's balance row, and no step of another request changes that committed
\* balance in between.
C17_BillPaymentExclusive ==
    [][\A r \in Reqs :
        (kind[r] = "payBill" /\ pc[r] \in {"pb_log", "pb_commit"}) =>
            /\ rowLock[User(r)] = r
            /\ pc'[r] = pc[r] => balance'[User(r)] = balance[User(r)]]_vars

\* C18: all transfers take their two row locks in one order over user ids: two
\* transfers between the same two users in opposite directions never hold, each,
\* the row the other has yet to lock.
C18_GlobalLockOrder ==
    \A r1, r2 \in Reqs :
        (/\ r1 # r2
         /\ kind[r1] = "sendMoney" /\ kind[r2] = "sendMoney"
         /\ Resolved(r1) = User(r2) /\ Resolved(r2) = User(r1)
         /\ User(r1) # User(r2))
        => ~(/\ rowLock[User(r1)] = r1 /\ pc[r1] \in {"sm_debit", "sm_credit"}
             /\ rowLock[User(r2)] = r2 /\ pc[r2] \in {"sm_debit", "sm_credit"})

\* C19: the new_balance of a transfer to another user answered 200 is the balance
\* the transfer read under its lock minus the amount, whatever other requests do.
C19_ReturnedBalance ==
    [][\A r \in Reqs :
        (/\ kind[r] = "sendMoney" /\ pc[r] = "sm_newbal" /\ Stepped(r)
         /\ resp'[r].status = 200 /\ Resolved(r) # User(r))
        => resp'[r].new_balance = loc[r].bal - arg[r].amount]_vars

\* Request r holds the lock of some balance row.
HoldsRowLock(r) == \E u \in Users : rowLock[u] = r

\* C20: a transfer that is about to look a user up by an identifier of the request
\* (the recipient by recipient_identifier, the sender's name by sender_id) holds no
\* balance-row lock, and neither does one about to answer 404 or the 400 of a
\* self-transfer.
C20_ResolutionBeforeLocking ==
    \A r \in Reqs :
        (kind[r] = "sendMoney" /\
         pc[r] \in {"sm_find", "sm_name", "sm_rollback404", "sm_rollback400"})
        => ~HoldsRowLock(r)

\* The awaits at which a handler that holds a client asks the pool for another
\* connection.
PoolQueries == {"pb_balance", "pb_newbal", "sm_find", "sm_name", "sm_newbal"}

\* C21: the pool's connections are never all held by requests that each wait for
\* another connection of the pool.
C21_NoPoolExhaustionHang ==
    ~(/\ InUse = PoolMax
      /\ crowd.begin = 0 /\ crowd.rollback = 0
      /\ \A r \in Reqs : client[r] => pc[r] \in PoolQueries)

\* The handler of request r has returned or thrown.
Finished(r) == pc[r] \in {"done", "thrown", "ended"}

\* C22: a request whose handler has finished has been sent a response, whichever
\* store call was rejected.
C22_ExactlyOneResponse ==
    \A r \in Reqs : Finished(r) => resp[r].status # 0

\* C23: a request whose handler has finished holds no client, and the transaction
\* it opened is over: it holds no row lock and has no uncommitted write; with no
\* request in flight no connection is checked out and no row lock is held.
C23_TransactionAndConnectionClosure ==
    /\ \A r \in Reqs :
        pc[r] \in {"done", "thrown"} =>
            /\ ~client[r]
            /\ \A u \in Users : rowLock[u] # r
            /\ txDelta[r] = ZeroDelta /\ txRecs[r] = <<>>
    /\ (\A r \in Reqs : pc[r] = "idle" \/ Finished(r)) =>
            InUse = 0 /\ \A u \in Users : rowLock[u] = 0

RECURSIVE SumBalances(_, _)
SumBalances(b, u) == IF u > NumUsers THEN 0 ELSE b[u] + SumBalances(b, u + 1)

\* The committed amounts of deposits (CREDIT, no counterparty; the opening
\* deposits among them) and of bill payments (DEBIT, no counterparty).
Deposited == LET T(x) == x.type = "CREDIT" /\ x.counterparty = 0 IN SumAmounts(RecsWhere(T))
BillsPaid == LET T(x) == x.type = "DEBIT" /\ x.counterparty = 0 IN SumAmounts(RecsWhere(T))

\* C24: every step of a transfer leaves the sum of all balances as it is, and
\* after every step the sum of all balances is the sum of the committed deposits
\* minus the sum of the committed bill payments.
C24_ConservationOfMoney ==
    [][/\ \A r \in Reqs : (kind'[r] = "sendMoney" /\ Stepped(r)) =>
            SumBalances(balance', 1) = SumBalances(balance, 1)
       /\ SumBalances(balance', 1) = Deposited' - BillsPaid']_vars

====
